---- MODULE Spec2Model ----
(***************************************************************************)
(* The SimuLife observatory's client-side view model: the react-query      *)
(* cache written by the polling hooks (pull) and by the WebSocket hook     *)
(* (push), the control mutation, and what the dashboard reads from it.     *)
(*                                                                         *)
(* The code carries no freshness marker.  To state the freshness claims    *)
(* every payload of the model is stamped with f, the backend's version of  *)
(* that data kind at the moment the payload was produced; the client code  *)
(* never reads f.                                                          *)
(*                                                                         *)
(* Beside the data the model holds the life of the session: the sockets    *)
(* the WebSocket hook has created and its reconnect timers, the retries    *)
(* of a failed fetch, and the alert box a failed command opens.            *)
(***************************************************************************)
EXTENDS Integers, Sequences, FiniteSets, TLC

\* ------------------------------------------------------------- bounds
\* Number of times the backend changes one data kind.
MaxVer == 2
\* Push messages in flight on the socket.
MaxWs == 1
\* Control commands dispatched in one run.
MaxCmds == 1

\* WebSocket objects one session creates.
MaxSockets == 3
\* Largest attempt index the backoff function is evaluated at.
MaxAttempt == 6
\* Times WorldView3D's scene mounts in one session.
MaxMounts == 2
\* Intervals the positions of an axis are taken at.
Grid == 4
\* The latest elapsed time, in seconds, a frame is drawn at.
MaxTime == 3
\* How far from its first position the local timer moves an agent.
MaxDrift == 2

\* -------------------------------------------------- program constants
\* useEvents(15) in ObservatoryDashboard.
DashboardEventLimit == 15
\* queryClient.setQueryData(['events', 10], ...) in onmessage.
PushEventLimit == 10
\* retry: failureCount < 3.
MaxRetries == 3
\* retryDelay: Math.min(1000 * 2 ** attemptIndex, 30000).
RetryBase == 1000
RetryCap == 30000
\* (agent.position.x - 50): the centre of the simulation's bounds.
SimCenter == 50
\* * 0.4 in AgentSphere, * 0.3 in AgentMesh, in tenths.
SphereScale == 4
MeshScale == 3
\* PlaneGeometry(40, 40, ...): the side of the terrain plane.
PlaneSize == 40
\* ws.onclose: setTimeout(connect, 3000).
ReconnectDelay == 3000
\* catch around new WebSocket: setTimeout(connect, 5000).
ConnectFailedDelay == 5000

Min(a, b) == IF a <= b THEN a ELSE b

\* ---------------------------------------------------------- data model
Kinds == {"simulation", "agents", "events"}

SimKey == <<"simulation">>
AgentsKey == <<"agents">>
EventsKey(limit) == <<"events", limit>>

\* The query keys the cache is written under.
QueryKeys == {SimKey, AgentsKey, EventsKey(PushEventLimit), EventsKey(DashboardEventLimit)}

\* The key each polling hook of the dashboard reads and fetches.
PullKey(kind) ==
  CASE kind = "simulation" -> SimKey
    [] kind = "agents" -> AgentsKey
    [] kind = "events" -> EventsKey(DashboardEventLimit)

\* The key onmessage writes each kind of a push message to.
PushKey(kind) ==
  CASE kind = "simulation" -> SimKey
    [] kind = "agents" -> AgentsKey
    [] kind = "events" -> EventsKey(PushEventLimit)

KindOf(key) == key[1]

\* SimulationState, cut to the run flag and the day counter.
SimValues == [isRunning : BOOLEAN, day : {10}]

\* Agent, cut to identity, one coordinate and the status.
AgentRec(id, x, status) == [id |-> id, x |-> x, status |-> status]

AgentLists ==
  { <<>>,
    <<AgentRec("a1", 0, "active"), AgentRec("a2", 100, "resting")>>,
    <<AgentRec("a1", 100, "exploring")>> }

\* SimulationEvent, cut to identity and timestamp; lists are newest first.
EventRec(n) == [id |-> n, timestamp |-> n]

EventLists ==
  { <<EventRec(1)>>,
    <<EventRec(2), EventRec(1)>>,
    <<EventRec(3)>> }

\* What the backend can hold for a kind.
Values(kind) ==
  CASE kind = "simulation" -> SimValues
    [] kind = "agents" -> AgentLists
    [] kind = "events" -> EventLists

undefined == <<>>

\* ------------------------------------------------------------- state
VARIABLES
  srv,      \* backend: kind -> [f, v], the current version and data
  cache,    \* query cache: key -> undefined or <<payload>>
  fetch,    \* pull adapter: key -> [st, resp], the fetch in flight
  ws,       \* push adapter: messages in flight, in order
  cmds,     \* control mutations dispatched so far
  seen,     \* history: key -> the highest f of the payloads applied to it
  last,     \* history: the last step taken and the cache before it
  mounted,      \* the dashboard (and with it every hook) is mounted
  sockets,      \* readyState of each WebSocket created, in order of creation
  timers,       \* delays of the pending setTimeout(connect, delay) calls
  isConnected,  \* useSimulationWebSocket's state isConnected
  error,        \* useSimulationWebSocket's state error
  retries,      \* key -> delays slept so far by the retries of the fetch
  status,       \* key -> the query's status
  alert,        \* the alert box open: <<>> or <<the action that failed>>
  canvas,       \* WorldView3D's scene is mounted
  heightfields, \* the heightfields EnhancedTerrain has generated, in order
  placed,       \* <<>> or <<the agent rendered last and where its group is>>
  spheres,      \* <<>> or two copies of one AgentSphere, each with its frames
  simulationState, \* the state the dashboard of RecentEvents.tsx keeps itself
  stale         \* the sockets and timers of dashboards unmounted and replaced

\* The state of useSimulationWebSocket.
hook == <<mounted, sockets, timers, isConnected, error, stale>>

\* The state of the queries beside their data.
query == <<retries, status>>

\* The state of WorldView3D.
scene == <<canvas, heightfields, placed, spheres, simulationState>>

vars == <<srv, cache, fetch, ws, cmds, seen, last, hook, query, alert, scene>>

null == "null"

\* wsRef.current: the socket created last (0 stands for null).
wsRef == Len(sockets)

\* A message event is dispatched only on a socket whose readyState is OPEN.
Open ==
  \/ \E s \in DOMAIN sockets : sockets[s] = "OPEN"
  \/ \E s \in DOMAIN stale.sockets : stale.sockets[s] = "OPEN"

\* alert() returns when the box is dismissed: until then no handler, timer
\* or promise callback of the page runs.
Running == alert = <<>>

Idle == [st |-> "idle", resp |-> <<>>]
Requested == [st |-> "requested", resp |-> <<>>]
Responded(p) == [st |-> "responded", resp |-> <<p>>]

\* The record of a step: the operation, the key a pull step is about, what it
\* applied (<<response>> of a pull, <<message>> of a push), whether it
\* notified the presentation, and the cache it started from.
Step(op, key, input, notified) ==
  [op |-> op, key |-> key, input |-> input, notified |-> notified, before |-> cache]

Max(a, b) == IF a >= b THEN a ELSE b

\* seen once the cache is d.
Seen(d) ==
  [k \in QueryKeys |-> IF d[k] = undefined THEN seen[k] ELSE Max(seen[k], d[k][1].f)]

\* The backend as a session finds it: running on day 10, two agents alive,
\* one event logged.  ServerStep takes it to every other value.
InitialData ==
  [k \in Kinds |->
     [f |-> 0,
      v |-> CASE k = "simulation" -> [isRunning |-> TRUE, day |-> 10]
              [] k = "agents" -> <<AgentRec("a1", 0, "active"), AgentRec("a2", 100, "resting")>>
              [] k = "events" -> <<EventRec(1)>>]]

Init ==
  /\ srv = InitialData
  /\ cache = [k \in QueryKeys |-> undefined]
  /\ fetch = [k \in QueryKeys |-> Idle]
  /\ ws = <<>>
  /\ cmds = <<>>
  /\ seen = [k \in QueryKeys |-> -1]
  /\ last = [op |-> "init", key |-> <<>>, input |-> <<>>, notified |-> FALSE,
             before |-> [k \in QueryKeys |-> undefined]]
  /\ mounted = TRUE
  /\ isConnected = FALSE
  \* the effect has run connect(): the socket is made, or the constructor
  \* threw and the catch has scheduled another connect()
  /\ \/ sockets = <<"CONNECTING">> /\ timers = <<>> /\ error = null
     \/ /\ sockets = <<>>
        /\ timers = <<ConnectFailedDelay>>
        /\ error = "Failed to connect to WebSocket"
  /\ retries = [k \in QueryKeys |-> <<>>]
  /\ status = [k \in QueryKeys |-> "pending"]
  /\ alert = <<>>
  \* the Canvas has not rendered its scene yet
  /\ canvas = FALSE
  /\ heightfields = <<>>
  /\ placed = <<>>
  /\ spheres = <<>>
  /\ stale = [sockets |-> <<>>, timers |-> <<>>]
  /\ simulationState = [isRunning |-> TRUE, speed |-> 1, agents |-> <<[x |-> 45, y |-> 60]>>]

\* ------------------------------------------------------------ backend
\* The backend's data of one kind changes.
ServerStep(kind) ==
  /\ srv[kind].f < MaxVer
  /\ \E v \in Values(kind) :
       srv' = [srv EXCEPT ![kind] = [f |-> srv[kind].f + 1, v |-> v]]
  /\ last' = Step("ServerStep", <<>>, <<>>, FALSE)
  /\ UNCHANGED scene
  /\ UNCHANGED <<cache, fetch, ws, cmds, seen, hook, query, alert>>

\* GET /api/events?limit=N: the first N of the newest-first list.
Limit(list, n) == SubSeq(list, 1, Min(n, Len(list)))

\* The body of a REST response for a query key, as the queryFn returns it.
apiCall(key, s) ==
  CASE KindOf(key) = "simulation" -> [f |-> s["simulation"].f, v |-> s["simulation"].v]
    [] KindOf(key) = "agents" ->
         [f |-> s["agents"].f, v |-> [wrapped |-> TRUE, agents |-> s["agents"].v]]
    [] KindOf(key) = "events" ->
         [f |-> s["events"].f,
          v |-> [wrapped |-> TRUE, events |-> Limit(s["events"].v, key[2])]]

\* The sub-payload of a push message for a kind.  The message is untyped
\* (any): the list may come bare or wrapped as the REST body is.
PushPayload(kind, s, wrapped) ==
  CASE kind = "simulation" -> [f |-> s["simulation"].f, v |-> s["simulation"].v]
    [] kind = "agents" ->
         [f |-> s["agents"].f, v |-> [wrapped |-> wrapped, agents |-> s["agents"].v]]
    [] kind = "events" ->
         [f |-> s["events"].f, v |-> [wrapped |-> wrapped, events |-> s["events"].v]]

MessageTypes == {"simulation_update", "pong"}

Message(type, S, wrapped) ==
  [type |-> type,
   data |-> [k \in Kinds |-> IF k \in S THEN <<PushPayload(k, srv, wrapped)>> ELSE <<>>]]

\* The backend sends a push message carrying the kinds in S.
ServerPush(type, S, wrapped) ==
  /\ Open
  /\ Len(ws) < MaxWs
  /\ ws' = Append(ws, Message(type, S, wrapped))
  /\ last' = Step("ServerPush", <<>>, <<>>, FALSE)
  /\ UNCHANGED scene
  /\ UNCHANGED <<srv, cache, fetch, cmds, seen, hook, query, alert>>

\* Frames no client can use: text that is no JSON, a tagged message without
\* its data record, and a message whose snapshot is in order while its
\* agents are a scalar where the list is to be.
BadFrames ==
  { [text |-> "{"],
    [type |-> "simulation_update"],
    [type |-> "simulation_update",
     data |-> [k \in Kinds |->
                 CASE k = "simulation" -> <<PushPayload(k, srv, TRUE)>>
                   [] k = "agents" ->
                        <<[f |-> srv[k].f,
                           v |-> [wrapped |-> FALSE, agents |-> <<>>, scalar |-> 42]]>>
                   [] OTHER -> <<>>]] }

\* The backend (or whatever sits on the socket) sends such a frame.
ServerPushBad(frame) ==
  /\ Open
  /\ Len(ws) < MaxWs
  /\ ws' = Append(ws, frame)
  /\ last' = Step("ServerPushBad", <<>>, <<>>, FALSE)
  /\ UNCHANGED scene
  /\ UNCHANGED <<srv, cache, fetch, cmds, seen, hook, query, alert>>

\* -------------------------------------------------------- query cache
Ids(list) == {list[i].id : i \in DOMAIN list}

\* A store that keeps the events it holds and puts a new batch in front.
setQueryDataAppend(c, key, data) ==
  IF KindOf(key) = "events" /\ c[key] # undefined
  THEN [c EXCEPT ![key] = <<[data EXCEPT !.v.events = @ \o c[key][1].v.events]>>]
  ELSE [c EXCEPT ![key] = <<data>>]

\* A store that merges entities by id: an entity the payload lacks stays.
setQueryDataMerge(c, key, data) ==
  IF KindOf(key) = "agents" /\ c[key] # undefined
  THEN [c EXCEPT ![key] =
          <<[data EXCEPT !.v.agents =
               @ \o SelectSeq(c[key][1].v.agents, LAMBDA a : a.id \notin Ids(data.v.agents))]>>]
  ELSE [c EXCEPT ![key] = <<data>>]

\* queryClient.setQueryData and a successful fetch alike: the entry of the
\* key becomes the given data, whatever it held.
setQueryData(c, key, data) == [c EXCEPT ![key] = <<data>>]

\* An invalidation without a queryKey: every query is fetched again.
invalidateAll(fe, key) == [k \in DOMAIN fe |-> Requested]

\* queryClient.invalidateQueries on a mounted query: the fetch in flight is
\* dropped and a new one is requested.
invalidateQueries(fe, key) == [fe EXCEPT ![key] = Requested]

\* A command is outstanding while a snapshot is written: it no longer sees
\* the view it was dispatched on.
Touched(cs) == [i \in DOMAIN cs |-> [cs[i] EXCEPT !.clean = FALSE]]

\* ------------------------------------------------------- pull adapter
Backoff == [st |-> "backoff", resp |-> <<>>]

\* A backoff that doubles without a cap.
retryDelayUncapped(attemptIndex) == RetryBase * 2^attemptIndex

\* defaultOptions.queries.retry: whether a fetch that has failed, after
\* failureCount earlier failures, is tried again.
retry(failureCount) == failureCount < MaxRetries

\* defaultOptions.queries.retryDelay
retryDelay(attemptIndex) == Min(RetryBase * 2^attemptIndex, RetryCap)

\* The failures of the fetch of a key so far that were followed by a retry.
FailureCount(key) == Len(retries[key])

\* A poll that stops once its query has taken an error.
refetchUntilError(key) == mounted /\ status[key] # "error"

\* refetchInterval: the interval timer of a polling hook runs while the
\* hook is mounted, whatever the query's status.
refetchInterval(key) == mounted

\* useQuery's refetchInterval timer (or mount) starts a fetch of the key.
\* A query that holds no data goes back to pending.
PullRequest(key) ==
  /\ Running
  /\ refetchInterval(key)
  /\ fetch[key].st = "idle"
  /\ fetch' = [fetch EXCEPT ![key] = Requested]
  /\ retries' = [retries EXCEPT ![key] = <<>>]
  /\ status' = [status EXCEPT ![key] = IF cache[key] = undefined THEN "pending" ELSE @]
  /\ last' = Step("PullRequest", key, <<>>, FALSE)
  /\ UNCHANGED scene
  /\ UNCHANGED <<srv, cache, ws, cmds, seen, hook, alert>>

\* The backend answers the request from its current data.
ServerRespond(key) ==
  /\ fetch[key].st = "requested"
  /\ fetch' = [fetch EXCEPT ![key] = Responded(apiCall(key, srv))]
  /\ last' = Step("ServerRespond", key, <<>>, FALSE)
  /\ UNCHANGED scene
  /\ UNCHANGED <<srv, cache, ws, cmds, seen, hook, query, alert>>

\* The response arrives: the query's data becomes the response body.  The
\* cache belongs to the module's queryClient, not to the component: a fetch
\* that outlives the dashboard ends the same way.
PullDeliver(key) ==
  /\ Running
  /\ fetch[key].st = "responded"
  /\ cache' = setQueryData(cache, key, fetch[key].resp[1])
  /\ fetch' = [fetch EXCEPT ![key] = Idle]
  /\ status' = [status EXCEPT ![key] = "success"]
  /\ cmds' = IF key = SimKey THEN Touched(cmds) ELSE cmds
  /\ seen' = Seen(cache')
  /\ last' = Step("PullDeliver", key, fetch[key].resp, mounted)
  /\ UNCHANGED scene
  /\ UNCHANGED <<srv, ws, hook, retries, alert>>

\* The request fails (no connection, or a non-2xx answer: apiCall throws).
\* The fetch sleeps retryDelay and is tried again, or, its retries used up,
\* the query takes the error and keeps its data.
PullFail(key) ==
  /\ Running
  /\ fetch[key].st = "requested"
  /\ IF retry(FailureCount(key))
     THEN /\ fetch' = [fetch EXCEPT ![key] = Backoff]
          /\ retries' = [retries EXCEPT ![key] = Append(@, retryDelay(FailureCount(key)))]
          /\ UNCHANGED status
     ELSE /\ fetch' = [fetch EXCEPT ![key] = Idle]
          /\ status' = [status EXCEPT ![key] = "error"]
          /\ UNCHANGED retries
  /\ last' = Step("PullFail", key, <<>>, ~retry(FailureCount(key)) /\ mounted)
  /\ UNCHANGED scene
  /\ UNCHANGED <<srv, cache, ws, cmds, seen, hook, alert>>

\* The retry delay is over: the request is sent again.
PullRetry(key) ==
  /\ Running
  /\ fetch[key].st = "backoff"
  /\ fetch' = [fetch EXCEPT ![key] = Requested]
  /\ last' = Step("PullRetry", key, <<>>, FALSE)
  /\ UNCHANGED scene
  /\ UNCHANGED <<srv, cache, ws, cmds, seen, hook, query, alert>>

\* ------------------------------------------------------- push adapter
\* A handler without the check of message.type.
HandlesAnyType(type) == TRUE

\* Which message types onmessage acts on.
HandlesType(type) == type = "simulation_update"

\* ws.onmessage, the cache after the handler ran on a parsed message.
onmessage(c, message) ==
  IF HandlesType(message.type)
  THEN LET c1 == IF message.data["simulation"] # <<>>
                 THEN setQueryData(c, SimKey, message.data["simulation"][1])
                 ELSE c
           c2 == IF message.data["agents"] # <<>>
                 THEN setQueryData(c1, AgentsKey, message.data["agents"][1])
                 ELSE c1
           c3 == IF message.data["events"] # <<>>
                 THEN setQueryData(c2, EventsKey(PushEventLimit), message.data["events"][1])
                 ELSE c2
       IN c3
  ELSE c

\* JSON.parse(event.data): <<the message>>, or <<>> where it throws.  A
\* frame that is no JSON text is the record of its text alone.
JSONparse(frame) == IF "text" \in DOMAIN frame THEN <<>> ELSE <<frame>>

\* Whether the handler's try block reaches its writes: the text parses, the
\* type is handled, and message.data is there (message.data.simulation of a
\* message without data throws, and the catch logs it).
ReachesWrites(frame) ==
  /\ JSONparse(frame) # <<>>
  /\ HandlesType(frame.type)
  /\ "data" \in DOMAIN frame

\* A frame arrives on the socket.  setLastMessage(message) stores a freshly
\* parsed object, so the component using the hook re-renders on every
\* message that parses.
WsDeliver ==
  /\ Running
  /\ Open
  /\ Len(ws) > 0
  /\ LET message == Head(ws) IN
       /\ cache' = IF ReachesWrites(message) THEN onmessage(cache, message) ELSE cache
       /\ cmds' = IF ReachesWrites(message) /\ message.data["simulation"] # <<>>
                  THEN Touched(cmds) ELSE cmds
       /\ last' = Step("WsDeliver", <<>>, <<message>>, mounted /\ JSONparse(message) # <<>>)
       /\ UNCHANGED scene
  /\ ws' = Tail(ws)
  /\ seen' = Seen(cache')
  /\ status' = [k \in QueryKeys |->
                  IF /\ ReachesWrites(Head(ws))
                     /\ \E kind \in Kinds : k = PushKey(kind) /\ Head(ws).data[kind] # <<>>
                  THEN "success" ELSE status[k]]
  /\ UNCHANGED <<srv, fetch, hook, retries, alert>>

\* A state setter of the hook: React drops the update of a component that
\* is no longer mounted.
setState(old, new) == IF mounted THEN new ELSE old

\* An onclose that reports the loss and leaves the socket closed for good.
ScheduleNothing(ts) == ts

\* setTimeout(connect, 3000) in onclose: the timer's id is not kept.
ScheduleReconnect(ts) == Append(ts, ReconnectDelay)

\* ws.onopen
onopen(s) ==
  /\ Running
  /\ sockets[s] = "CONNECTING"
  /\ sockets' = [sockets EXCEPT ![s] = "OPEN"]
  /\ isConnected' = setState(isConnected, TRUE)
  /\ error' = setState(error, null)
  /\ last' = Step("onopen", <<>>, <<s>>, mounted)
  /\ UNCHANGED scene
  /\ UNCHANGED stale
  /\ UNCHANGED <<srv, cache, fetch, ws, cmds, seen, mounted, timers, query, alert>>

\* ws.onerror
onerror(s) ==
  /\ Running
  /\ sockets[s] \in {"CONNECTING", "OPEN"}
  /\ error' = setState(error, "WebSocket connection error")
  /\ last' = Step("onerror", <<>>, <<s>>, mounted)
  /\ UNCHANGED scene
  /\ UNCHANGED stale
  /\ UNCHANGED <<srv, cache, fetch, ws, cmds, seen, mounted, sockets, timers,
                 isConnected, query, alert>>

\* ws.onclose: the connection could not be made, was lost, or was closed by
\* close().  The messages in flight on it are lost with it.
onclose(s) ==
  /\ Running
  /\ sockets[s] \in {"CONNECTING", "OPEN", "CLOSING"}
  /\ sockets' = [sockets EXCEPT ![s] = "CLOSED"]
  /\ isConnected' = setState(isConnected, FALSE)
  /\ timers' = ScheduleReconnect(timers)
  /\ ws' = IF \E o \in DOMAIN sockets : o # s /\ sockets[o] = "OPEN" THEN ws ELSE <<>>
  /\ last' = Step("onclose", <<>>, <<s>>, mounted)
  /\ UNCHANGED scene
  /\ UNCHANGED stale
  /\ UNCHANGED <<srv, cache, fetch, cmds, seen, mounted, error, query, alert>>

\* connect(): new WebSocket(WS_URL) throws on a URL it cannot take, and
\* WS_URL is the same at every call: the session whose first connect() was
\* caught has no socket, and every later connect() of it is caught too.
connect ==
  IF sockets = <<>>
  THEN /\ error' = setState(error, "Failed to connect to WebSocket")
       /\ timers' = Append(Tail(timers), ConnectFailedDelay)
       /\ UNCHANGED <<sockets, isConnected>>
  ELSE /\ Len(sockets) < MaxSockets
       /\ sockets' = Append(sockets, "CONNECTING")
       /\ timers' = Tail(timers)
       /\ UNCHANGED <<isConnected, error>>

\* A reconnect timer fires and runs connect.
TimerFire ==
  /\ Running
  /\ timers # <<>>
  /\ connect
  /\ last' = Step("TimerFire", <<>>, <<>>, FALSE)
  /\ UNCHANGED scene
  /\ UNCHANGED stale
  /\ UNCHANGED <<srv, cache, fetch, ws, cmds, seen, mounted, query, alert>>

\* wsRef.current.close(): a socket not yet closed starts closing.
close(ss, s) ==
  IF s > 0 /\ ss[s] \in {"CONNECTING", "OPEN"} THEN [ss EXCEPT ![s] = "CLOSING"] ELSE ss

\* The dashboard unmounts: the effect's cleanup closes wsRef.current.  The
\* polling hooks stop their interval timers; requests out stay out.
Unmount ==
  /\ Running
  /\ mounted
  /\ mounted' = FALSE
  /\ sockets' = close(sockets, wsRef)
  /\ last' = Step("Unmount", <<>>, <<>>, FALSE)
  /\ UNCHANGED scene
  /\ UNCHANGED stale
  /\ UNCHANGED <<srv, cache, fetch, ws, cmds, seen, timers, isConnected, error, query, alert>>

\* A hook whose effect runs again in the same component: the sockets and
\* timers of the run before still reach its state.
sameInstance(ss, ts, st) == [sockets |-> ss, timers |-> ts, stale |-> st]

\* The hook of a dashboard mounted anew: useState(false), useState(null) and
\* useRef(null) give it its own state and no socket; the sockets and timers
\* of the dashboard before it stay with that dashboard's closures.
newInstance(ss, ts, st) ==
  [sockets |-> <<>>, timers |-> <<>>,
   stale |-> [sockets |-> st.sockets \o ss, timers |-> st.timers \o ts]]

\* The dashboard mounts again after an unmount: a new hook, whose effect runs
\* connect().  No command of the dashboard before it is pending.
Remount ==
  /\ Running
  /\ ~mounted
  /\ ~canvas
  /\ \A i \in DOMAIN cmds : cmds[i].state # "pending"
  /\ Len(sockets) + Len(stale.sockets) < MaxSockets
  /\ Len(timers) + Len(stale.timers) < MaxSockets
  /\ mounted' = TRUE
  /\ isConnected' = FALSE
  /\ LET hookState == newInstance(sockets, timers, stale) IN
     /\ stale' = hookState.stale
     /\ IF sockets = <<>> /\ stale.sockets = <<>>
        THEN /\ sockets' = hookState.sockets
             /\ timers' = Append(hookState.timers, ConnectFailedDelay)
             /\ error' = "Failed to connect to WebSocket"
        ELSE /\ sockets' = Append(hookState.sockets, "CONNECTING")
             /\ timers' = hookState.timers
             /\ error' = null
  /\ last' = Step("Remount", <<>>, <<>>, FALSE)
  /\ UNCHANGED scene
  /\ UNCHANGED <<srv, cache, fetch, ws, cmds, seen, query, alert>>

\* ws.onopen of a socket of a dashboard no longer there: its setters are
\* dropped.
StaleOpen(s) ==
  /\ Running
  /\ stale.sockets[s] = "CONNECTING"
  /\ stale' = [stale EXCEPT !.sockets[s] = "OPEN"]
  /\ last' = Step("StaleOpen", <<>>, <<s>>, FALSE)
  /\ UNCHANGED scene
  /\ UNCHANGED <<srv, cache, fetch, ws, cmds, seen, mounted, sockets, timers,
                 isConnected, error, query, alert>>

\* ws.onclose of such a socket: its setTimeout(connect, 3000) is set all the
\* same.
StaleClose(s) ==
  /\ Running
  /\ stale.sockets[s] \in {"CONNECTING", "OPEN", "CLOSING"}
  /\ stale' = [sockets |-> [stale.sockets EXCEPT ![s] = "CLOSED"],
               timers |-> ScheduleReconnect(stale.timers)]
  /\ last' = Step("StaleClose", <<>>, <<s>>, FALSE)
  /\ UNCHANGED scene
  /\ UNCHANGED <<srv, cache, fetch, ws, cmds, seen, mounted, sockets, timers,
                 isConnected, error, query, alert>>

\* A timer of such a dashboard fires and runs its connect.
StaleTimerFire ==
  /\ Running
  /\ stale.timers # <<>>
  /\ IF sockets = <<>> /\ stale.sockets = <<>>
     THEN stale' = [stale EXCEPT !.timers = Append(Tail(@), ConnectFailedDelay)]
     ELSE /\ Len(sockets) + Len(stale.sockets) < MaxSockets
          /\ stale' = [sockets |-> Append(stale.sockets, "CONNECTING"),
                       timers |-> Tail(stale.timers)]
  /\ last' = Step("StaleTimerFire", <<>>, <<>>, FALSE)
  /\ UNCHANGED scene
  /\ UNCHANGED <<srv, cache, fetch, ws, cmds, seen, mounted, sockets, timers,
                 isConnected, error, query, alert>>

\* ------------------------------------------------------- presentation
\* ObservatoryDashboard: simulationData || { ...fallback }.
Fallback == [isRunning |-> FALSE, day |-> 0]

simulation == IF cache[SimKey] = undefined THEN Fallback ELSE cache[SimKey][1].v

\* agentsData?.agents || []
agents ==
  LET d == cache[AgentsKey] IN
  IF d = undefined THEN <<>> ELSE IF d[1].v.wrapped THEN d[1].v.agents ELSE <<>>

\* eventsData?.events || [], eventsData being useEvents(15)'s data
events ==
  LET d == cache[EventsKey(DashboardEventLimit)] IN
  IF d = undefined THEN <<>> ELSE IF d[1].v.wrapped THEN d[1].v.events ELSE <<>>

\* simulationError || agentsError || eventsError: a query's error is set
\* while its status is error (the phase10 query is left out of the model).
hasError == \E kind \in Kinds : status[PullKey(kind)] = "error"

\* What ObservatoryDashboard renders: with hasError the Connection Error
\* page and nothing else, otherwise the dashboard over the view model.
ObservatoryDashboard ==
  IF hasError
  THEN [page |-> "Connection Error"]
  ELSE [page |-> "dashboard", simulation |-> simulation, agents |-> agents,
        events |-> events]

\* ------------------------------------------------------------- scene
\* Vertices of the terrain plane the model looks at: a corner and the centre
\* of PlaneGeometry(40, 40, 64, 64).
Vertices == {<<-20, 20>>, <<0, 0>>}

\* The sum of the three sine-cosine terms at a vertex, in thousandths.
Hills(vertex) ==
  CASE vertex = <<-20, 20>> -> -1102
    [] vertex = <<0, 0>> -> 0

\* Math.random() * 0.5, in thousandths: anything from 0 up to 0.5.
RandomHeights == {0, 250, 499}

\* The heightfields one run of EnhancedTerrain's useMemo callback can give:
\* at each vertex the hills plus a Math.random() term of its own.
Heightfields ==
  {[vertex \in Vertices |-> Hills(vertex) + r[vertex]] : r \in [Vertices -> RandomHeights]}

\* The dashboard renders WorldView3D (it has no error to show) and the scene
\* mounts: useMemo(..., []) runs its callback for the new component.
SceneMount ==
  /\ Running
  /\ mounted
  /\ ~hasError
  /\ ~canvas
  /\ Len(heightfields) < MaxMounts
  /\ canvas' = TRUE
  /\ \E heightfield \in Heightfields : heightfields' = Append(heightfields, heightfield)
  /\ last' = Step("SceneMount", <<>>, <<>>, FALSE)
  /\ UNCHANGED <<srv, cache, fetch, ws, cmds, seen, hook, query, alert, placed, spheres,
                 simulationState>>

\* The scene renders again: useMemo gives back the geometry it holds.
SceneRender ==
  /\ Running
  /\ canvas
  /\ last' = Step("SceneRender", <<>>, <<>>, FALSE)
  /\ UNCHANGED <<srv, cache, fetch, ws, cmds, seen, hook, query, alert, scene>>

\* The dashboard returns its Connection Error page, or unmounts: the scene
\* unmounts with WorldView3D.
SceneUnmount ==
  /\ Running
  /\ canvas
  /\ hasError \/ ~mounted
  /\ canvas' = FALSE
  /\ last' = Step("SceneUnmount", <<>>, <<>>, FALSE)
  /\ UNCHANGED <<srv, cache, fetch, ws, cmds, seen, hook, query, alert, heightfields,
                 placed, spheres, simulationState>>

\* The two agent components and the factor each multiplies by, in tenths of
\* a scene unit: AgentSphere (0.4) and AgentMesh (0.3).
AgentComponents == {"AgentSphere", "AgentMesh"}

Scale(component) == IF component = "AgentSphere" THEN SphereScale ELSE MeshScale

\* worldX = (agent.position.x - 50) * 0.4 (or 0.3), worldZ likewise from
\* position.y: the scene coordinate, in tenths of a scene unit.  The other
\* agents rendered are not looked at.
project(component, x, others) == (x - SimCenter) * Scale(component)

\* Positions on one axis of the simulation's bounds [0, 100].
Positions == {(100 * i) \div Grid : i \in 0..Grid}

\* The scene renders an agent, one of population agents, at a position.
AgentPlace(component, x, y, others) ==
  /\ Running
  /\ canvas
  /\ placed' = <<[component |-> component, x |-> x, y |-> y, others |-> others,
                  worldX |-> project(component, x, others),
                  worldZ |-> project(component, y, others)]>>
  /\ last' = Step("AgentPlace", <<>>, <<>>, FALSE)
  /\ UNCHANGED <<srv, cache, fetch, ws, cmds, seen, hook, query, alert, canvas,
                 heightfields, spheres, simulationState>>

\* Ids of agents: numerals, and the form the backend's agents have.
AgentIds == {"1", "2", "agent_001"}

\* A number is <<n>>; NaN is the one value that is not a number.
NaN == <<>>

\* parseInt(agent.id): the leading digits of the string, NaN without any.
parseInt(id) ==
  CASE id = "1" -> <<1>>
    [] id = "2" -> <<2>>
    [] OTHER -> NaN

\* Math.sin at whole radians, in thousandths.
Sin(a) == <<0, 841, 909, 141, -757, -959, -279, 657, 989, 412, -544, -1000, -537, 420>>[a + 1]

\* Math.sin(elapsedTime * 2 + parseInt(agent.id)) * 0.2 + 1, in thousandths;
\* arithmetic on NaN gives NaN.
bob(elapsedTime, id) ==
  IF parseInt(id) = NaN THEN NaN
  ELSE <<Sin(elapsedTime * 2 + parseInt(id)[1]) \div 5 + 1000>>

\* rotation.y = elapsedTime * 0.5, in thousandths.
rotation(elapsedTime) == elapsedTime * 500

\* targetScale = hovered ? 1.3 : 1, in thousandths.
targetScale(hovered) == IF hovered THEN 1300 ELSE 1000

\* scale.lerp(target, 0.1): a tenth of the way from the mesh's scale.
lerp(scale, target) == scale + (target - scale) \div 10

\* Two copies of the AgentSphere of one agent, as three.js creates its mesh.
AgentMount(id) ==
  /\ Running
  /\ canvas
  /\ spheres = <<>>
  /\ spheres' = [r \in 1..2 |-> [id |-> id, hovered |-> FALSE, drawn |-> FALSE,
                                  elapsedTime |-> 0, y |-> <<0>>, rotation |-> 0,
                                  scale |-> 1000]]
  /\ last' = Step("AgentMount", <<>>, <<>>, FALSE)
  /\ UNCHANGED <<srv, cache, fetch, ws, cmds, seen, hook, query, alert, canvas,
                 heightfields, placed, simulationState>>

\* useFrame's callback on copy r at a later reading of the clock.
useFrame(r, elapsedTime) ==
  /\ Running
  /\ spheres # <<>>
  /\ spheres[r].drawn => elapsedTime > spheres[r].elapsedTime
  /\ LET mesh == spheres[r] IN
     spheres' = [spheres EXCEPT ![r] =
        [mesh EXCEPT !.drawn = TRUE,
                     !.elapsedTime = elapsedTime,
                     !.y = bob(elapsedTime, mesh.id),
                     !.rotation = rotation(elapsedTime),
                     !.scale = lerp(mesh.scale, targetScale(mesh.hovered))]]
  /\ last' = Step("useFrame", <<>>, <<>>, FALSE)
  /\ UNCHANGED <<srv, cache, fetch, ws, cmds, seen, hook, query, alert, canvas,
                 heightfields, placed, simulationState>>

\* onPointerOver / onPointerOut: setHovered(over).
setHovered(r, over) ==
  /\ Running
  /\ spheres # <<>>
  /\ spheres[r].hovered # over
  /\ spheres' = [spheres EXCEPT ![r].hovered = over]
  /\ last' = Step("setHovered", <<>>, <<>>, FALSE)
  /\ UNCHANGED <<srv, cache, fetch, ws, cmds, seen, hook, query, alert, canvas,
                 heightfields, placed, simulationState>>

\* -------------------------------------------------- command dispatcher
\* The actions the dashboard's control buttons dispatch: the primary toggle
\* (by the displayed run flag), Step and Stop.
ControlActions == {IF simulation.isRunning THEN "pause" ELSE "start", "step", "stop"}

\* A dispatcher that patches the run flag on mutate and never takes it back.
mutateOptimistic(c, action) ==
  IF action \in {"start", "pause"}
  THEN [c EXCEPT ![SimKey] =
          <<[f |-> IF @ = undefined THEN -1 ELSE @[1].f,
             v |-> [IF @ = undefined THEN Fallback ELSE @[1].v
                      EXCEPT !.isRunning = (action = "start")]]>>]
  ELSE c

\* useMutation's options hold mutationFn, onSuccess and onError and no
\* onMutate: calling mutate writes nothing to the cache.
mutate(c, action) == c

\* onError logs (and the dashboard alerts): the cache is left as it is.
onError(c, cmd) == c

\* The retry option applied to mutations as it is to queries.
mutationRetryAsQueries(failureCount) == failureCount < MaxRetries

\* Whether a failed mutation is sent again: defaultOptions sets retry for
\* queries only and useMutation's options name none.
mutationRetry(failureCount) == FALSE

\* alert(`Failed to ${action} simulation: ...`) in the onError passed to
\* controlSimulation by handleSimulationControl.
alertFailed(a, action) == <<action>>

\* handleSimulationControl(action): controlSimulation(action, ...) issues
\* POST /api/control/{action}; the mutation is pending.  posts counts the
\* requests sent for the command, notices the alert boxes it has opened, ver
\* is the backend's version of the snapshot once it has carried the command out.
Dispatch(action) ==
  /\ Running
  /\ mounted
  /\ Len(cmds) < MaxCmds
  /\ action \in ControlActions
  /\ cmds' = Append(cmds, [action |-> action, state |-> "pending", net |-> "request",
                           pre |-> simulation.isRunning, clean |-> TRUE,
                           posts |-> 1, notices |-> 0, ver |-> -1])
  /\ cache' = mutate(cache, action)
  /\ last' = Step("Dispatch", <<>>, <<>>, FALSE)
  /\ UNCHANGED scene
  /\ UNCHANGED <<srv, fetch, ws, seen, hook, query, alert>>

\* A request whose answer is taken although its mutation has settled.
OutstandingOrSettled(cmd) == cmd.net \in {"request", "done"}

\* The mutationFn's request is out: its promise has neither resolved nor
\* rejected.
Outstanding(cmd) == cmd.net = "request"

\* What a control action does to the backend's run flag.
Effect(action, v) ==
  CASE action = "start" -> [v EXCEPT !.isRunning = TRUE]
    [] action \in {"pause", "stop"} -> [v EXCEPT !.isRunning = FALSE]
    [] OTHER -> v

\* The backend carries the action out and answers 2xx.
ControlOk(i) ==
  /\ Outstanding(cmds[i])
  /\ srv' = [srv EXCEPT !["simulation"] =
                [f |-> @.f + 1, v |-> Effect(cmds[i].action, @.v)]]
  /\ cmds' = [cmds EXCEPT ![i].net = "ok", ![i].ver = srv["simulation"].f + 1]
  /\ last' = Step("ControlOk", <<>>, <<>>, FALSE)
  /\ UNCHANGED scene
  /\ UNCHANGED <<cache, fetch, ws, seen, hook, query, alert>>

\* The request fails (network error or a non-2xx answer: apiCall throws).
ControlErr(i) ==
  /\ Outstanding(cmds[i])
  /\ cmds' = [cmds EXCEPT ![i].net = "err"]
  /\ last' = Step("ControlErr", <<>>, <<>>, FALSE)
  /\ UNCHANGED scene
  /\ UNCHANGED <<srv, cache, fetch, ws, seen, hook, query, alert>>

\* The mutation settles with success: onSuccess invalidates ['simulation'],
\* which refetches the query while a hook observes it.
ControlConfirmed(i) ==
  /\ Running
  /\ cmds[i].net = "ok"
  /\ cmds' = [cmds EXCEPT ![i].net = "done", ![i].state = "confirmed"]
  /\ fetch' = IF mounted THEN invalidateQueries(fetch, SimKey) ELSE fetch
  /\ retries' = IF mounted THEN [retries EXCEPT ![SimKey] = <<>>] ELSE retries
  /\ status' = IF mounted /\ cache[SimKey] = undefined
                THEN [status EXCEPT ![SimKey] = "pending"] ELSE status
  /\ last' = Step("ControlConfirmed", <<>>, <<>>, FALSE)
  /\ UNCHANGED scene
  /\ UNCHANGED <<srv, cache, ws, seen, hook, alert>>

\* The callbacks passed to mutate() run for the hook's latest mutate() call,
\* and while the component is mounted.
MutateCallbacks(i) == mounted /\ i = Len(cmds)

\* The request has failed.  A mutation that is retried is sent again; one
\* that is not settles with the error: onError logs, and the onError the
\* dashboard passed to mutate() opens the alert box.
ControlFailed(i) ==
  /\ Running
  /\ cmds[i].net = "err"
  /\ IF mutationRetry(cmds[i].posts - 1)
     THEN /\ cmds' = [cmds EXCEPT ![i].net = "request", ![i].posts = @ + 1]
          /\ UNCHANGED <<cache, alert>>
     ELSE /\ cmds' = [cmds EXCEPT ![i].net = "done", ![i].state = "failed",
                                   ![i].notices = IF MutateCallbacks(i) THEN @ + 1 ELSE @]
          /\ cache' = onError(cache, cmds[i])
          /\ alert' = IF MutateCallbacks(i) THEN alertFailed(alert, cmds[i].action) ELSE alert
  /\ last' = Step("ControlFailed", <<>>, <<>>, FALSE)
  /\ UNCHANGED scene
  /\ UNCHANGED <<srv, fetch, ws, seen, hook, query>>

\* The operator dismisses the alert box.
AlertDismiss ==
  /\ alert # <<>>
  /\ alert' = <<>>
  /\ last' = Step("AlertDismiss", <<>>, <<>>, FALSE)
  /\ UNCHANGED scene
  /\ UNCHANGED <<srv, cache, fetch, ws, cmds, seen, hook, query>>

\* ------------------------------------------------------ specifications
Server(K) ==
  \/ \E k \in K : ServerStep(k)
  \/ \E type \in MessageTypes, S \in SUBSET K, wrapped \in BOOLEAN :
       ServerPush(type, S, wrapped)

Pull(K) ==
  \E k \in K :
    \/ PullRequest(PullKey(k))
    \/ ServerRespond(PullKey(k))
    \/ PullDeliver(PullKey(k))

Control ==
  \/ \E action \in {"start", "pause", "step", "stop"} : Dispatch(action)
  \/ \E i \in DOMAIN cmds :
       ControlOk(i) \/ ControlErr(i) \/ ControlConfirmed(i) \/ ControlFailed(i)
  \/ AlertDismiss

\* The push connection opens.
Connect == \E s \in DOMAIN sockets : onopen(s)

\* The whole client against the backend.
Next == Server(Kinds) \/ Pull(Kinds) \/ Connect \/ WsDeliver \/ Control

Spec == Init /\ [][Next]_vars

\* The snapshot slice alone, under both adapters.
NextSim == Server({"simulation"}) \/ Pull({"simulation"}) \/ Connect \/ WsDeliver

SpecSim == Init /\ [][NextSim]_vars

\* The snapshot poll against a backend that may fail to answer, in a
\* session that may end.
PullUnreliable(K) ==
  \E k \in K :
    \/ PullRequest(PullKey(k))
    \/ ServerRespond(PullKey(k))
    \/ PullDeliver(PullKey(k))
    \/ PullFail(PullKey(k))
    \/ PullRetry(PullKey(k))

NextRetry == ServerStep("simulation") \/ PullUnreliable({"simulation"}) \/ Unmount

SpecRetry == Init /\ [][NextRetry]_vars

\* The same, where timers fire and promise callbacks run, and where the
\* backend does not stay unreachable for ever: of requests sent again and
\* again one is answered.
SpecRetryFair ==
  /\ SpecRetry
  /\ \A k \in {SimKey} :
       /\ WF_vars(PullRequest(k))
       /\ WF_vars(PullRetry(k))
       /\ WF_vars(PullDeliver(k))
       /\ SF_vars(ServerRespond(k))

\* The life of the push connection: sockets open, fail and close, reconnect
\* timers fire, the dashboard unmounts.
Lifecycle ==
  \/ \E s \in DOMAIN sockets : onopen(s)
  \/ \E s \in DOMAIN sockets : onerror(s)
  \/ \E s \in DOMAIN sockets : onclose(s)
  \/ TimerFire
  \/ Unmount

\* The connection's life over dashboards that unmount and mount again.
NextRemount ==
  \/ Lifecycle
  \/ Remount
  \/ \E s \in DOMAIN stale.sockets : StaleOpen(s)
  \/ \E s \in DOMAIN stale.sockets : StaleClose(s)
  \/ StaleTimerFire

SpecRemount == Init /\ [][NextRemount]_vars

\* The session from mount to after its end, with the snapshot arriving by
\* push and by poll.
NextWs ==
  \/ Lifecycle
  \/ \E wrapped \in BOOLEAN : ServerPush("simulation_update", {"simulation"}, wrapped)
  \/ WsDeliver
  \/ Pull({"simulation"})

SpecWs == Init /\ [][NextWs]_vars

\* The connection's life beside a snapshot poll that may fail.
NextConn == Lifecycle \/ PullUnreliable({"simulation"})

SpecConn == Init /\ [][NextConn]_vars

\* Good and bad frames on the socket, the snapshot and the agents changing.
NextBad ==
  \/ \E k \in {"simulation", "agents"} : ServerStep(k)
  \/ ServerPush("simulation_update", {"simulation", "agents"}, TRUE)
  \/ \E frame \in BadFrames : ServerPushBad(frame)
  \/ Connect
  \/ WsDeliver

SpecBad == Init /\ [][NextBad]_vars

\* The scene beside a snapshot poll that may fail: the dashboard goes to
\* its error page and comes back.
NextTerrain ==
  \/ PullUnreliable({"simulation"})
  \/ SceneMount
  \/ SceneRender
  \/ SceneUnmount

SpecTerrain == Init /\ [][NextTerrain]_vars

\* handleAgentClick: setSelectedAgent(agent), in both dashboards.
handleAgentClick ==
  /\ Running
  /\ last' = Step("handleAgentClick", <<>>, <<>>, FALSE)
  /\ UNCHANGED <<srv, cache, fetch, ws, cmds, seen, hook, query, alert, scene>>

\* The actions the control panel of the dashboard with local state sends.
PanelActions == {"play", "pause", "fast", "restart"}

\* The actions the buttons of the earlier ControlPanel pass to onControl:
\* the primary toggle (by the isRunning it is given), Fast and Restart.
ControlPanelActions ==
  {IF simulationState.isRunning THEN "pause" ELSE "play", "fast", "restart"}

\* handleSimulationControl of the dashboard with local state: a switch that
\* sets its own simulationState.
handleSimulationControl(action) ==
  /\ simulationState' =
       CASE action = "play" -> [simulationState EXCEPT !.isRunning = TRUE]
         [] action = "pause" -> [simulationState EXCEPT !.isRunning = FALSE]
         [] action = "fast" -> [simulationState EXCEPT !.speed = IF @ = 3 THEN 1 ELSE 3]
         [] OTHER -> simulationState
  /\ last' = Step("handleSimulationControl", <<>>, <<action>>, FALSE)
  /\ UNCHANGED <<srv, cache, fetch, ws, cmds, seen, hook, query, alert, canvas,
                 heightfields, placed, spheres>>

\* A button of the earlier ControlPanel is pressed: onControl(action), the
\* dashboard's handleSimulationControl.
onControl(action) ==
  /\ action \in ControlPanelActions
  /\ handleSimulationControl(action)

\* (Math.random() - 0.5) * 2, to the unit.
RandomSteps == {-1, 0, 1}

\* Math.max(0, Math.min(100, p)).
clamp(p) == Max(0, Min(100, p))

\* The callback of the interval the effect sets while isRunning: every agent
\* moves by a random step.
intervalTick(dx, dy) ==
  /\ simulationState.isRunning
  /\ \A i \in DOMAIN simulationState.agents :
       /\ simulationState.agents[i].x + dx \in (45 - MaxDrift)..(45 + MaxDrift)
       /\ simulationState.agents[i].y + dy \in (60 - MaxDrift)..(60 + MaxDrift)
  /\ simulationState' = [simulationState EXCEPT !.agents =
        [i \in DOMAIN @ |-> [x |-> clamp(@[i].x + dx), y |-> clamp(@[i].y + dy)]]]
  /\ last' = Step("intervalTick", <<>>, <<>>, FALSE)
  /\ UNCHANGED <<srv, cache, fetch, ws, cmds, seen, hook, query, alert, canvas,
                 heightfields, placed, spheres>>

\* Agents rendered at positions all over the simulation's bounds.
NextProject ==
  \/ SceneMount
  \/ \E component \in AgentComponents, x, y \in Positions, others \in {<<>>, <<50>>, <<0, 100>>} :
       AgentPlace(component, x, y, others)

SpecProject == Init /\ [][NextProject]_vars

\* The dashboard's handlers, those of the variant with local state and its
\* timer.
NextLocal ==
  \/ \E action \in ControlActions : Dispatch(action)
  \/ handleAgentClick
  \/ \E action \in PanelActions : onControl(action)
  \/ \E dx, dy \in RandomSteps : intervalTick(dx, dy)

SpecLocal == Init /\ [][NextLocal]_vars

\* One agent's sphere drawn frame by frame, twice over, under the pointer.
NextFrame ==
  \/ SceneMount
  \/ \E id \in AgentIds : AgentMount(id)
  \/ \E r \in 1..2, elapsedTime \in 0..MaxTime : useFrame(r, elapsedTime)
  \/ \E r \in 1..2, over \in BOOLEAN : setHovered(r, over)

SpecFrame == Init /\ [][NextFrame]_vars

\* The snapshot slice under polling, with the control commands.
NextCtl == ServerStep("simulation") \/ Pull({"simulation"}) \/ Control

SpecCtl == Init /\ [][NextCtl]_vars

\* The commands beside the snapshot poll, the backend changing its data
\* by the commands alone; a request out is answered, a settled promise runs
\* its callbacks, and the operator dismisses an alert box.
Settle ==
  \E i \in DOMAIN cmds :
    ControlOk(i) \/ ControlErr(i) \/ ControlConfirmed(i) \/ ControlFailed(i)

NextCmd == Pull({"simulation"}) \/ Control

SpecCtlFair == Init /\ [][NextCmd]_vars /\ WF_vars(Settle) /\ WF_vars(AlertDismiss)

\* The commands beside the polls of the snapshot and of the agents.
NextConfirm == Pull({"simulation", "agents"}) \/ Control

SpecConfirm == Init /\ [][NextConfirm]_vars

\* Push messages carrying every subset of the kinds, beside the events poll,
\* against a backend whose data stays as the session found it.
NextPush ==
  \/ \E type \in MessageTypes, S \in SUBSET Kinds, wrapped \in BOOLEAN :
       ServerPush(type, S, wrapped)
  \/ Pull({"events"})
  \/ Connect
  \/ WsDeliver

SpecPush == Init /\ [][NextPush]_vars

\* The entities slice alone.
NextAgents == Server({"agents"}) \/ Pull({"agents"}) \/ Connect \/ WsDeliver

SpecAgents == Init /\ [][NextAgents]_vars

\* The events slices alone.
NextEvents == Server({"events"}) \/ Pull({"events"}) \/ Connect \/ WsDeliver

SpecEvents == Init /\ [][NextEvents]_vars

\* ============================================================== claims
NoDupIds(list) == \A i, j \in DOMAIN list : list[i].id = list[j].id => i = j

NewestFirst(list) ==
  \A i, j \in DOMAIN list : i < j => list[i].timestamp >= list[j].timestamp

EventsAt(c, key) == c[key][1].v.events

Quiescent == ws = <<>> /\ \A k \in QueryKeys : fetch[k].st = "idle"

\* The kinds a delivered push message carried.
Carried(m) == {kind \in Kinds : m.data[kind] # <<>>}

\* C1: a payload changes the slice of its kind only if its freshness is >= the
\* freshness stored for that kind; a strictly older payload leaves it as it is.
C1_FreshnessRule ==
  \A k \in QueryKeys :
    (cache[k] # last.before[k] /\ last.before[k] # undefined)
      => cache[k][1].f >= last.before[k][1].f

\* C2: once every payload sent has arrived, the slice holds the payload of the
\* highest freshness among those applied to it, whatever the arrival order.
C2_MaxFreshnessWins ==
  Quiescent => \A k \in QueryKeys : cache[k] # undefined => cache[k][1].f = seen[k]

\* C3: a push message whose payloads the store already holds (the same pair
\* applied a second time) leaves the visible state as it is and notifies nobody.
C3_SecondApplyIsSilent ==
  (/\ last.op = "WsDeliver"
   /\ last.input[1].type = "simulation_update"
   /\ Carried(last.input[1]) # {}
   /\ \A kind \in Carried(last.input[1]) :
        last.before[PushKey(kind)] = last.input[1].data[kind])
    => (cache = last.before /\ ~last.notified)

\* C4: after a newer event batch is applied to a slice that holds a batch of
\* other ids, the slice holds the events of both (the bound of the ring is not
\* reached here), newest first.
C4_EventBatchesMerge ==
  \A k \in {EventsKey(PushEventLimit), EventsKey(DashboardEventLimit)} :
    (/\ last.before[k] # undefined
     /\ cache[k] # last.before[k]
     /\ cache[k][1].f >= last.before[k][1].f
     /\ Len(EventsAt(last.before, k)) + Len(EventsAt(cache, k)) <= PushEventLimit)
      => (/\ Ids(EventsAt(last.before, k)) \subseteq Ids(EventsAt(cache, k))
          /\ NewestFirst(EventsAt(cache, k)))

C6_WholesaleReplace ==
  /\ (last.op = "PullDeliver" /\ last.key \in {SimKey, AgentsKey})
       => cache[last.key] = last.input
  /\ (last.op = "WsDeliver" /\ last.input[1].type = "simulation_update")
       => /\ last.input[1].data["simulation"] # <<>>
               => cache[SimKey] = last.input[1].data["simulation"]
          /\ last.input[1].data["agents"] # <<>>
               => cache[AgentsKey] = last.input[1].data["agents"]

\* A push replaced a polled list of two agents by a list of one of them.
C6_Witness ==
  /\ last.op = "WsDeliver"
  /\ last.input[1].type = "simulation_update"
  /\ last.input[1].data["agents"] # <<>>
  /\ last.before[AgentsKey] # undefined
  /\ last.before[AgentsKey][1].v.wrapped
  /\ Len(last.before[AgentsKey][1].v.agents) = 2
  /\ Len(cache[AgentsKey][1].v.agents) = 1
  /\ cache[AgentsKey][1].v.agents[1].id \in Ids(last.before[AgentsKey][1].v.agents)

\* C7: after a push message carrying events in the shape of the REST body,
\* the event list the dashboard shows is the pushed one.
C7_PushedEventsShown ==
  (/\ last.op = "WsDeliver"
   /\ last.input[1].type = "simulation_update"
   /\ last.input[1].data["events"] # <<>>
   /\ last.input[1].data["events"][1].v.wrapped)
    => events = last.input[1].data["events"][1].v.events

\* The keys a simulation_update message carrying the kinds S is to write.
Written(S) ==
  {k \in QueryKeys :
     \/ k = SimKey /\ "simulation" \in S
     \/ k = AgentsKey /\ "agents" \in S
     \/ k = EventsKey(PushEventLimit) /\ "events" \in S}

\* C8: a simulation_update message writes the entries of exactly the kinds it
\* carries (simulation, agents, events as ['events', 10]) and leaves every
\* other entry as it was; a message of another type leaves every entry.
C8_PushFrame ==
  last.op = "WsDeliver" =>
    LET m == last.input[1] IN
    IF m.type = "simulation_update"
    THEN /\ "simulation" \in Carried(m) => cache[SimKey] = m.data["simulation"]
         /\ "agents" \in Carried(m) => cache[AgentsKey] = m.data["agents"]
         /\ "events" \in Carried(m) => cache[EventsKey(PushEventLimit)] = m.data["events"]
         /\ \A k \in QueryKeys \ Written(Carried(m)) : cache[k] = last.before[k]
    ELSE cache = last.before

\* A message carrying simulation and events but no agents arrived while the
\* agents and the polled events were held, and changed the pushed events.
C8_Witness ==
  /\ last.op = "WsDeliver"
  /\ last.input[1].type = "simulation_update"
  /\ Carried(last.input[1]) = {"simulation", "events"}
  /\ last.before[AgentsKey] # undefined
  /\ last.before[EventsKey(DashboardEventLimit)] # undefined
  /\ cache[EventsKey(PushEventLimit)] # last.before[EventsKey(PushEventLimit)]

\* A message of another type carrying all three kinds arrived.
C8_WitnessOtherType ==
  /\ last.op = "WsDeliver"
  /\ last.input[1].type # "simulation_update"
  /\ Carried(last.input[1]) = Kinds

\* C9: while a dispatched pause or start is pending and no snapshot has
\* arrived since, the run flag shown is the optimistic one: false for pause,
\* true for start.
C9_OptimisticRunFlag ==
  \A i \in DOMAIN cmds :
    (cmds[i].state = "pending" /\ cmds[i].clean /\ cmds[i].action \in {"start", "pause"})
      => simulation.isRunning = (cmds[i].action = "start")

\* C10: once a command has failed, and while no snapshot has been applied
\* since its dispatch, the run flag shown is the one shown before the dispatch.
C10_FailureKeepsRunFlag ==
  \A i \in DOMAIN cmds :
    (cmds[i].state = "failed" /\ cmds[i].clean)
      => simulation.isRunning = cmds[i].pre

\* A pause dispatched on a running view has failed, no snapshot in between.
C10_Witness ==
  \E i \in DOMAIN cmds :
    /\ cmds[i].state = "failed"
    /\ cmds[i].clean
    /\ cmds[i].action = "pause"
    /\ cmds[i].pre = TRUE
    /\ last.op = "ControlFailed"

\* C11: a pause dispatched on a running view and not failed shows the run
\* flag false from the dispatch on: while no snapshot has been applied since,
\* and, once the backend has carried it out, while the snapshot shown is no
\* newer than the one the command produced (a poll answered before the
\* dispatch, or the authoritative paused snapshot itself).
C11_PauseNoFlicker ==
  \A i \in DOMAIN cmds :
    (cmds[i].action = "pause" /\ cmds[i].pre /\ cmds[i].net # "err" /\ cmds[i].state # "failed")
      => /\ cmds[i].clean => ~simulation.isRunning
         /\ (cmds[i].net \in {"ok", "done"} /\ cache[SimKey][1].f <= cmds[i].ver)
              => ~simulation.isRunning

\* C12: every command dispatched has caused exactly one POST request,
\* whether it is out, has succeeded or has failed: the requests sent are as
\* many as the dispatches.
C12_OnePostPerDispatch == \A i \in DOMAIN cmds : cmds[i].posts = 1

\* A command has failed, and a command has succeeded, on its one request.
C12_Witness ==
  /\ last.op = "ControlFailed"
  /\ \E i \in DOMAIN cmds : cmds[i].state = "failed" /\ cmds[i].posts = 1

C12_WitnessConfirmed ==
  /\ last.op = "ControlConfirmed"
  /\ \E i \in DOMAIN cmds : cmds[i].state = "confirmed" /\ cmds[i].posts = 1

\* The commands in flight.
InFlight == {i \in DOMAIN cmds : cmds[i].state = "pending"}

C14_FailureNoticeNonBlocking ==
  /\ \A i \in DOMAIN cmds :
       /\ cmds[i].state = "failed" => cmds[i].notices = 1
       /\ cmds[i].state = "confirmed" => cmds[i].notices = 0
  /\ alert # <<>> =>
       /\ fetch[SimKey].st = "responded" => ENABLED PullDeliver(SimKey)
       /\ (mounted /\ Len(cmds) < MaxCmds) => ENABLED Dispatch("step")

\* The delay the claim gives for retry k.
BackoffDelay(k) == Min(RetryBase * 2^k, RetryCap)

Live == {s \in DOMAIN sockets : sockets[s] # "CLOSED"}

\* C17: a close of the connection leaves the hook of a live session
\* reporting disconnected and a reconnect timer of 3000 ms (less than the
\* 30000 ms cap of the pull backoff) pending; whenever a live session holds
\* no socket that is open or opening, a reconnect is pending, and a pending
\* reconnect can run.
C17_ReconnectLoop ==
  /\ last.op = "onclose" =>
       /\ mounted => ~isConnected
       /\ timers # <<>>
       /\ timers[Len(timers)] = 3000
       /\ timers[Len(timers)] < RetryCap
  /\ (mounted /\ Live = {}) => timers # <<>>
  /\ (timers # <<>> /\ Running /\ Len(sockets) < MaxSockets) => ENABLED TimerFire

\* A live session has lost its second connection, once open, and waits for
\* the next reconnect.
C17_Witness ==
  /\ last.op = "onclose"
  /\ mounted
  /\ Len(sockets) = 2
  /\ Live = {}
  /\ timers = <<3000>>
  /\ error = null

\* C18: after teardown no reconnect timer is pending and no connect() runs:
\* no socket is created once the hook is unmounted.
C18_TeardownCancels ==
  /\ ~mounted => timers = <<>>
  /\ last.op = "TimerFire" => mounted
  /\ ~mounted => \A s \in DOMAIN sockets : sockets[s] \in {"CLOSING", "CLOSED"}

\* Whether the last step applied a payload to the store.
Applied ==
  \/ last.op = "PullDeliver"
  \/ /\ last.op = "WsDeliver"
     /\ HandlesType(last.input[1].type)
     /\ Carried(last.input[1]) # {}

\* C19: a payload is applied to the store only in a live session: neither
\* the answer of a poll sent before teardown nor a push message is applied
\* once the hooks are unmounted.
C19_NoApplyAfterTeardown == Applied => mounted

\* The connection indicator of the dashboard's header: the status dot and
\* its label, Connected or Disconnected.
connectionState == IF isConnected THEN "connected" ELSE "disconnected"

\* C20: the connection state shown is one of connecting, connected,
\* degraded, disconnected; it is connecting until the first socket opens,
\* degraded once a query's retries are used up, and disconnected only when
\* neither a socket is open nor a poll succeeds.
C20_ConnectionState ==
  /\ connectionState \in {"connecting", "connected", "degraded", "disconnected"}
  /\ sockets = <<"CONNECTING">> => connectionState = "connecting"
  /\ (\E k \in QueryKeys : status[k] = "error") => connectionState = "degraded"
  /\ connectionState = "disconnected" =>
       (~Open /\ \A k \in QueryKeys : status[k] # "success")

\* C21: once a snapshot has been applied and the polls then fail for good,
\* the dashboard still shows the last snapshot applied, and what it shows is
\* not what a session that never received a payload shows.
C21_LastKnownGoodShown ==
  (cache[SimKey] # undefined /\ status[SimKey] = "error" /\ ~Open)
    => /\ ObservatoryDashboard.page = "dashboard"
       /\ ObservatoryDashboard.simulation = cache[SimKey][1].v
       /\ ObservatoryDashboard # [page |-> "Connection Error"]

\* A frame that does not parse, lacks its data record, or carries a
\* sub-payload that is a scalar.
Malformed(frame) ==
  \/ JSONparse(frame) = <<>>
  \/ "data" \notin DOMAIN frame
  \/ \E kind \in Kinds :
       frame.data[kind] # <<>> /\ "scalar" \in DOMAIN frame.data[kind][1].v

\* C22: a malformed frame changes no slice of the store (so none of its
\* kinds is applied while another is not), and the frame after it is handled.
C22_MalformedRejectedWhole ==
  (last.op = "WsDeliver" /\ Malformed(last.input[1])) => cache = last.before

\* C23: every generation of the terrain in a session gives the same
\* heightfield: the same height at every vertex.
C23_TerrainDeterministic ==
  \A i, j \in DOMAIN heightfields :
    \A vertex \in Vertices : heightfields[i][vertex] = heightfields[j][vertex]

\* Half the side of the terrain plane, in tenths of a scene unit.
HalfWidth == 10 * (PlaneSize \div 2)

\* C24: an agent's scene coordinate is (p - 50) * s on each axis with the
\* one s of its component, whatever other agents are rendered; it lies on the
\* terrain plane, and a position on the bounds (0 or 100) lies on the edge
\* of the plane.
C24_ProjectionOntoScene ==
  placed # <<>> =>
    LET a == placed[1] IN
    /\ a.worldX = (a.x - 50) * Scale(a.component)
    /\ a.worldZ = (a.y - 50) * Scale(a.component)
    /\ -HalfWidth <= a.worldX /\ a.worldX <= HalfWidth
    /\ -HalfWidth <= a.worldZ /\ a.worldZ <= HalfWidth
    /\ a.x = 0 => a.worldX = -HalfWidth
    /\ a.x = 100 => a.worldX = HalfWidth
    /\ a.y = 0 => a.worldZ = -HalfWidth
    /\ a.y = 100 => a.worldZ = HalfWidth

\* What a frame leaves on the mesh.
Visual(sphere) == <<sphere.y, sphere.rotation, sphere.scale>>

\* C25: what a frame leaves on an agent's mesh (height, rotation, scale) is
\* a number for every id, and two frames of the same agent at the same
\* elapsed time leave the same, whatever came before and whatever the
\* pointer did.
C25_VisualStatePure ==
  spheres # <<>> =>
    /\ \A r \in 1..2 : spheres[r].drawn => spheres[r].y # NaN
    /\ (/\ spheres[1].drawn /\ spheres[2].drawn
        /\ spheres[1].elapsedTime = spheres[2].elapsedTime)
         => Visual(spheres[1]) = Visual(spheres[2])

\* The handlers and timers of the presentation layer.
PresentationOps == {"Dispatch", "handleAgentClick", "handleSimulationControl", "intervalTick"}

\* C26: a step of the presentation layer (a click on an agent, a press of a
\* control button, a tick of a component's timer) leaves the run flag, the
\* speed and every agent's position as they were, in the store and in the
\* state the dashboard renders.
C26_PresentationReadsOnly ==
  [][last'.op \in PresentationOps =>
       /\ cache' = cache
       /\ simulationState' = simulationState]_vars

\* The connections of the session that are connecting or open.
Connections ==
  Cardinality({s \in DOMAIN sockets : sockets[s] \in {"CONNECTING", "OPEN"}})
    + Cardinality({s \in DOMAIN stale.sockets : stale.sockets[s] \in {"CONNECTING", "OPEN"}})

\* C27: at any time the session has at most one push connection that is
\* connecting or open and at most one reconnect timer pending, whatever the
\* order of open, error, close, timer, unmount and remount events.
C27_OneConnectionOneTimer ==
  /\ Connections <= 1
  /\ Len(timers) + Len(stale.timers) <= 1

\* The socket the mounted hook holds is open.
CurrentOpen == wsRef > 0 /\ sockets[wsRef] = "OPEN"

\* C28: while the dashboard is mounted its indicator reads connected exactly
\* when the hook's current socket is open; an error event leaves isConnected
\* as it was, and so does the close of a socket of an earlier mount while
\* the current socket is open.
C28_IndicatorAgrees ==
  /\ [](mounted => ((connectionState = "connected") <=> CurrentOpen))
  /\ [][last'.op = "onerror" => isConnected' = isConnected]_vars
  /\ [][(last'.op \in {"StaleClose", "onclose"} /\ last'.input # <<wsRef>> /\ mounted /\ CurrentOpen)
         => isConnected' = isConnected]_vars

\* The socket of the first mount closes after the second mount's socket has
\* opened, and the indicator still reads connected.
C28_Witness ==
  /\ last.op = "StaleClose"
  /\ mounted
  /\ CurrentOpen
  /\ isConnected
  /\ stale.sockets = <<"CLOSED">>

\* The snapshot is being fetched again since command i was confirmed, or
\* the store holds one at least as new as the backend's after the command.
Refreshed(i) ==
  CASE fetch[SimKey].st = "responded" -> fetch[SimKey].resp[1].f >= cmds[i].ver
    [] fetch[SimKey].st = "idle" ->
         cache[SimKey] # undefined /\ cache[SimKey][1].f >= cmds[i].ver
    [] OTHER -> TRUE

\* C29: the confirmation of a command requests the snapshot again and leaves
\* the fetches of the other slices and the whole store as they were; from
\* then on the snapshot is on its way or the store holds one at least as new
\* as the backend's after the command; the failure of a command leaves every
\* fetch and the store as they were.
C29_ConfirmInvalidatesSnapshotOnly ==
  /\ [][last'.op = "ControlConfirmed" =>
          /\ mounted => fetch'[SimKey] = Requested
          /\ \A k \in QueryKeys \ {SimKey} : fetch'[k] = fetch[k]
          /\ cache' = cache]_vars
  /\ [][last'.op = "ControlFailed" => (fetch' = fetch /\ cache' = cache)]_vars
  /\ [](\A i \in DOMAIN cmds : cmds[i].state = "confirmed" => Refreshed(i))

\* A command is confirmed while the answer of the agents poll is on its
\* way: the snapshot is requested again, the agents fetch stays as it was.
C29_Witness ==
  /\ last.op = "ControlConfirmed"
  /\ fetch[SimKey] = Requested
  /\ fetch[AgentsKey].st = "responded"
  /\ cache[AgentsKey] # undefined

\* The control actions of POST /control/{action}.
BackendActions == {"start", "pause", "stop", "step"}

\* C30: every action a control button passes on is one of start, pause,
\* stop, step, and the primary toggle passes pause exactly when the run flag
\* on display is true and start exactly when it is false.
C30_NamedControlActions ==
  /\ \A i \in DOMAIN cmds :
       /\ cmds[i].action \in BackendActions
       /\ cmds[i].action = "pause" => cmds[i].pre
       /\ cmds[i].action = "start" => ~cmds[i].pre
  /\ last.op = "handleSimulationControl" => last.input[1] \in BackendActions

====
